---- MODULE Spec2Model ----
(***************************************************************************)
(* Dispatch layer of the tensor geometry kernels:                          *)
(*   t/geometry/kernel/PointCloud.cpp   Unproject, Project, Transform      *)
(*   t/pipelines/kernel/RGBDOdometry.cpp CreateVertexMap, CreateNormalMap  *)
(*                                                                         *)
(* A tensor is a view (blob, offset, shape, strides, dtype, device) over a *)
(* flat buffer held in `heap`.  Scalars are small integers.  Every public  *)
(* operation is one action: it takes the caller's variables in the state   *)
(* pc = "ready" and leaves the result in the state pc = "done".            *)
(***************************************************************************)
EXTENDS Integers, Sequences, FiniteSets, TLC

VARIABLES
    cuda_built,      \* BUILD_CUDA_MODULE of this build
    heap,            \* blob name -> flat buffer (<<>> when not allocated)
    points,          \* the caller's tensor variables
    normals,
    transformation,
    depth,
    image_colors,
    colors,
    intrinsics,
    extrinsics,
    vertex_map,
    normal_map,
    op,              \* the call the caller is about to make / has made
    pc,              \* "ready" | "done"
    outcome,         \* "none" | "ok" | "error"
    error,           \* which LogError / Assert fired ("" when none)
    kernel,          \* sequence of backend invocations, with their arguments
    written,         \* caller variables whose buffers a backend kernel wrote
    pre              \* the caller's heap and variables when the call was made

vars == <<cuda_built, heap, points, normals, transformation, depth,
          image_colors, colors, intrinsics, extrinsics, vertex_map,
          normal_map, op, pc, outcome, error, kernel, written, pre>>

(***************************************************************************)
(* Bounds of the model.                                                    *)
(***************************************************************************)
NumPoints == 2      \* rows of the caller's (N, 3) points / normals view
MaxSeed == 1        \* buffers are filled with seed + position, seed in 0..MaxSeed

(***************************************************************************)
(* Devices and dtypes.                                                     *)
(***************************************************************************)
Device(type, id) == [type |-> type, id |-> id]
host == Device("CPU", 0)
CUDA0 == Device("CUDA", 0)
CUDA1 == Device("CUDA", 1)
OtherDev == Device("OTHER", 0)
Float32 == "Float32"
Float64 == "Float64"
Dtypes == {Float32, Float64}
PrimaryDevices == {host, CUDA0, OtherDev}
\* A device different from d (different type, or same type and another id).
Mismatching(d) == IF d = host THEN CUDA0 ELSE IF d = CUDA0 THEN CUDA1 ELSE host

(***************************************************************************)
(* The tensor collaborator.                                                *)
(***************************************************************************)
Blobs == {"P", "N", "T", "K", "E", "D", "tmpP", "tmpN", "tmpT", "tmpK", "tmpE"}

Tensor(blob, offset, shape, strides, dtype, device) ==
    [blob |-> blob, offset |-> offset, shape |-> shape, strides |-> strides,
     dtype |-> dtype, device |-> device]

\* utility::nullopt for the optional reference arguments.
nullopt == Tensor("nullopt", 0, <<>>, <<>>, "", Device("", 0))
has_value(t) == t.blob # "nullopt"

RECURSIVE NumElements(_)
NumElements(shape) ==
    IF shape = <<>> THEN 1 ELSE Head(shape) * NumElements(Tail(shape))

\* shape_util::DefaultStrides: row-major strides of a dense tensor.
DefaultStrides(shape) ==
    [i \in 1..Len(shape) |-> NumElements(SubSeq(shape, i + 1, Len(shape)))]

IsContiguous(t) == t.strides = DefaultStrides(t.shape)

\* Element (r, c), 0-based, of a 2-D view.
At(h, t, r, c) == h[t.blob][t.offset + r * t.strides[1] + c * t.strides[2] + 1]

\* The elements of a 2-D view in logical row-major order (what a copy holds).
ToFlat(h, t) ==
    [k \in 1..(t.shape[1] * t.shape[2]) |->
        At(h, t, (k - 1) \div t.shape[2], (k - 1) % t.shape[2])]

\* GetDataPtr: n scalars read with stride 1 from the view's first element.
DenseRead(h, t, n) == [j \in 1..n |-> h[t.blob][t.offset + j]]

\* Tensor::Contiguous: the tensor itself when dense, else a dense copy.
Contiguous(h, t, fresh) ==
    IF IsContiguous(t)
    THEN [t |-> t, h |-> h]
    ELSE [t |-> Tensor(fresh, 0, t.shape, DefaultStrides(t.shape), t.dtype, t.device),
          h |-> [h EXCEPT ![fresh] = ToFlat(h, t)]]

\* Tensor::To(device, dtype): the tensor itself when nothing changes, else a
\* dense copy on the device with the dtype.
To(h, t, device, dtype, fresh) ==
    IF t.device = device /\ t.dtype = dtype
    THEN [t |-> t, h |-> h]
    ELSE [t |-> Tensor(fresh, 0, t.shape, DefaultStrides(t.shape), dtype, device),
          h |-> [h EXCEPT ![fresh] = ToFlat(h, t)]]

(***************************************************************************)
(* IsValidRigidTransformation (PointCloud.cpp).  transformation_ptr is a   *)
(* 1-based sequence here: ptr[i] of the source is m[i + 1].                *)
(***************************************************************************)
\* Variant: the third rotation entry of the first row is taken one place to
\* the right, so the translation entry m[3] is bounded instead of m[2].
IsValidRigidTransformation_Shifted(m) ==
    ~ (\/ m[1] > 1 \/ m[2] > 1 \/ m[4] > 1
       \/ m[5] > 1 \/ m[6] > 1 \/ m[7] > 1
       \/ m[9] > 1 \/ m[10] > 1 \/ m[11] > 1
       \/ m[13] # 0 \/ m[14] # 0 \/ m[15] # 0)

IsValidRigidTransformation(m) ==
    ~ (\/ m[1] > 1 \/ m[2] > 1 \/ m[3] > 1
       \/ m[5] > 1 \/ m[6] > 1 \/ m[7] > 1
       \/ m[9] > 1 \/ m[10] > 1 \/ m[11] > 1
       \/ m[13] # 0 \/ m[14] # 0 \/ m[15] # 0)

\* transformation.To(Device("CPU:0"), Float64).GetDataPtr<double>()
TransformationPtr(h, t) ==
    LET c == To(h, t, host, Float64, "tmpT") IN DenseRead(c.h, c.t, 16)

(***************************************************************************)
(* Backend kernels.  They take the data pointer of each tensor they are    *)
(* given and index it as a dense stride-1 buffer.                          *)
(***************************************************************************)
\* x' = R x + t on each of the n = GetLength() rows of 3 scalars at the data
\* pointer of p; m is the 16 scalars at the data pointer of the matrix.
TransformPointsKernel(h, p, m) ==
    LET buf == h[p.blob]
        n == p.shape[1]
        row(k) == (k - p.offset - 1) \div 3
        c(k) == (k - p.offset - 1) % 3
        x(k) == buf[p.offset + 3 * row(k) + 1]
        y(k) == buf[p.offset + 3 * row(k) + 2]
        z(k) == buf[p.offset + 3 * row(k) + 3]
    IN [h EXCEPT ![p.blob] =
          [k \in 1..Len(buf) |->
              IF k - p.offset \in 1..(3 * n)
              THEN m[4 * c(k) + 1] * x(k) + m[4 * c(k) + 2] * y(k)
                   + m[4 * c(k) + 3] * z(k) + m[4 * c(k) + 4]
              ELSE buf[k]]]

\* n' = R n on each row: the translation column is not applied.
TransformNormalsKernel(h, p, m) ==
    LET buf == h[p.blob]
        n == p.shape[1]
        row(k) == (k - p.offset - 1) \div 3
        c(k) == (k - p.offset - 1) % 3
        x(k) == buf[p.offset + 3 * row(k) + 1]
        y(k) == buf[p.offset + 3 * row(k) + 2]
        z(k) == buf[p.offset + 3 * row(k) + 3]
    IN [h EXCEPT ![p.blob] =
          [k \in 1..Len(buf) |->
              IF k - p.offset \in 1..(3 * n)
              THEN m[4 * c(k) + 1] * x(k) + m[4 * c(k) + 2] * y(k)
                   + m[4 * c(k) + 3] * z(k)
              ELSE buf[k]]]

\* One backend invocation, as recorded in `kernel`.
Invocation(fn, backend, args) == [fn |-> fn, backend |-> backend, args |-> args]

(***************************************************************************)
(* Backend selection.  The result is "CPU" or "CUDA" (the backend to run)  *)
(* or the LogError that ends the call.                                     *)
(***************************************************************************)
\* CUDA_CALL(fn, ...): runs fn when built with CUDA, else a fatal error.
CUDA_CALL(built) == IF built THEN "CUDA" ELSE "Not built with CUDA"

\* PointCloud.cpp: if CPU ... else if CUDA CUDA_CALL(...) else LogError.
DispatchPointCloud(device_type, built) ==
    IF device_type = "CPU" THEN "CPU"
    ELSE IF device_type = "CUDA" THEN CUDA_CALL(built)
    ELSE "Unimplemented device"

\* Variant: a CUDA device in a build without CUDA falls back to the CPU kernel.
DispatchOdometry_Fallback(device_type, built) ==
    IF device_type = "CPU" THEN "CPU"
    ELSE IF device_type = "CUDA"
         THEN IF built THEN "CUDA" ELSE "CPU"
         ELSE "Unimplemented device"

\* RGBDOdometry.cpp: the same chain with #ifdef BUILD_CUDA_MODULE inline.
DispatchOdometry(device_type, built) ==
    IF device_type = "CPU" THEN "CPU"
    ELSE IF device_type = "CUDA"
         THEN IF built THEN "CUDA" ELSE "Not compiled with CUDA"
         ELSE "Unimplemented device"

IsBackend(b) == b \in {"CPU", "CUDA"}

\* The result of a call: what the caller's state becomes.
Result(o, e, h, p, n, k, w) ==
    [outcome |-> o, error |-> e, heap |-> h, points |-> p, normals |-> n,
     kernel |-> k, written |-> w]

\* utility::LogError: the call ends, nothing of the caller's is changed.
LogError(e, h, p, n) == Result("error", e, h, p, n, <<>>, {})

\* Locals of the call that do not escape are released on return.
Release(h, blobs) == [b \in DOMAIN h |-> IF b \in blobs THEN <<>> ELSE h[b]]

(***************************************************************************)
(* Transform(points, transformation)                                       *)
(***************************************************************************)
\* Variant: the dtype of the transformation is not asserted.
TransformAsserts_NoDtype(p, T) ==
    IF T.shape # <<4, 4>> THEN "AssertShape"
    ELSE IF T.device # p.device THEN "AssertDevice"
    ELSE ""

\* The Assert* calls, in order; "" when all pass.
TransformAsserts(p, T) ==
    IF T.shape # <<4, 4>> THEN "AssertShape"
    ELSE IF T.dtype # p.dtype THEN "AssertDtype"
    ELSE IF T.device # p.device THEN "AssertDevice"
    ELSE ""

InvalidTransformation == "Invalid Transformation Matrix"

\* Variant: the caller's variable is left bound to the tensor passed in.
Rebind_Skipped(caller, contiguous) == caller

\* points = points_contiguous: the caller's variable is rebound.
Rebind(caller, contiguous) == contiguous

TransformCall(h, p, T, built) ==
    IF TransformAsserts(p, T) # ""
    THEN LogError(TransformAsserts(p, T), h, p, nullopt)
    ELSE IF ~ IsValidRigidTransformation(TransformationPtr(h, T))
    THEN LogError(InvalidTransformation, h, p, nullopt)
    ELSE
      LET points_contiguous == Contiguous(h, p, "tmpP")
          transformation_contiguous == Contiguous(points_contiguous.h, T, "tmpT")
          backend == DispatchPointCloud(p.device.type, built)
          \* the kernel is handed points and transformation themselves
          h1 == TransformPointsKernel(transformation_contiguous.h, p,
                                      DenseRead(transformation_contiguous.h, T, 16))
      IN IF ~ IsBackend(backend)
         THEN LogError(backend, h, p, nullopt)
         ELSE Result("ok", "", Release(h1, {"tmpT"}),
                     Rebind(p, points_contiguous.t), nullopt,
                     <<Invocation("Transform", backend,
                                  [points |-> p, transformation |-> T])>>,
                     {"points"})

(***************************************************************************)
(* Transform(points, normals, transformation)                              *)
(***************************************************************************)
TransformNormalsAsserts(p, n, T) ==
    IF T.shape # <<4, 4>> THEN "AssertShape"
    ELSE IF T.dtype # p.dtype THEN "AssertDtype"
    ELSE IF n.dtype # p.dtype THEN "AssertDtype normals"
    ELSE IF T.device # p.device THEN "AssertDevice"
    ELSE IF n.device # p.device THEN "AssertDevice normals"
    ELSE ""

TransformWithNormalsCall(h, p, n, T, built) ==
    IF TransformNormalsAsserts(p, n, T) # ""
    THEN LogError(TransformNormalsAsserts(p, n, T), h, p, n)
    ELSE IF ~ IsValidRigidTransformation(TransformationPtr(h, T))
    THEN LogError(InvalidTransformation, h, p, n)
    ELSE
      LET points_contiguous == Contiguous(h, p, "tmpP")
          normals_contiguous == Contiguous(points_contiguous.h, n, "tmpN")
          transformation_contiguous == Contiguous(normals_contiguous.h, T, "tmpT")
          backend == DispatchPointCloud(p.device.type, built)
          m == DenseRead(transformation_contiguous.h,
                         transformation_contiguous.t, 16)
          \* the kernel is handed points and normals themselves
          h1 == TransformPointsKernel(transformation_contiguous.h, p, m)
          h2 == TransformNormalsKernel(h1, n, m)
      IN IF ~ IsBackend(backend)
         THEN LogError(backend, h, p, n)
         ELSE Result("ok", "", Release(h2, {"tmpT"}),
                     Rebind(p, points_contiguous.t),
                     Rebind(n, normals_contiguous.t),
                     <<Invocation("Transform", backend,
                                  [points |-> p, normals |-> n,
                                   transformation |-> transformation_contiguous.t])>>,
                     {"points", "normals"})

(***************************************************************************)
(* Unproject and Project                                                   *)
(***************************************************************************)
\* Variant: only a missing colors output is reported.
PairingError_OneSided(ic, c) == has_value(ic) /\ ~ has_value(c)

\* if (image_colors.has_value() != colors.has_value()) LogError(...)
PairingError(ic, c) == has_value(ic) # has_value(c)

BothOrNone == "Both or none of image_colors and colors must have values"

Unproject(h, d, ic, p, c, K, E, built) ==
    IF PairingError(ic, c)
    THEN LogError(BothOrNone, h, p, nullopt)
    ELSE
      LET k1 == To(h, K, host, Float64, "tmpK")
          intrinsics_d == Contiguous(k1.h, k1.t, "tmpK")
          e1 == To(intrinsics_d.h, E, host, Float64, "tmpE")
          extrinsics_d == Contiguous(e1.h, e1.t, "tmpE")
          backend == DispatchPointCloud(d.device.type, built)
      IN IF ~ IsBackend(backend)
         THEN LogError(backend, h, p, nullopt)
         ELSE Result("ok", "", h, p, nullopt,
                     <<Invocation("Unproject", backend,
                                  [depth |-> d, image_colors |-> ic,
                                   points |-> p, colors |-> c,
                                   intrinsics |-> intrinsics_d.t,
                                   extrinsics |-> extrinsics_d.t])>>,
                     {"points"} \cup (IF has_value(c) THEN {"colors"} ELSE {}))

Project(h, d, ic, p, c, K, E, built) ==
    IF PairingError(ic, c)
    THEN LogError(BothOrNone, h, p, nullopt)
    ELSE
      LET backend == DispatchPointCloud(d.device.type, built)
      IN IF ~ IsBackend(backend)
         THEN LogError(backend, h, p, nullopt)
         ELSE Result("ok", "", h, p, nullopt,
                     <<Invocation("Project", backend,
                                  [depth |-> d, image_colors |-> ic,
                                   points |-> p, colors |-> c,
                                   intrinsics |-> K, extrinsics |-> E])>>,
                     {"depth"} \cup (IF has_value(ic) THEN {"image_colors"} ELSE {}))

(***************************************************************************)
(* CreateVertexMap and CreateNormalMap                                     *)
(***************************************************************************)
InconsistentDevice == "Inconsistent device between depth_map vs intrinsics"

CreateVertexMap(h, depth_map, K, vm, built) ==
    IF depth_map.device # K.device
    THEN LogError(InconsistentDevice, h, nullopt, nullopt)
    ELSE
      LET backend == DispatchOdometry(depth_map.device.type, built)
      IN IF ~ IsBackend(backend)
         THEN LogError(backend, h, nullopt, nullopt)
         ELSE Result("ok", "", h, nullopt, nullopt,
                     <<Invocation("CreateVertexMap", backend,
                                  [depth_map |-> depth_map, intrinsics |-> K,
                                   vertex_map |-> vm])>>,
                     {"vertex_map"})

CreateNormalMap(h, vm, nm, built) ==
    LET backend == DispatchOdometry(vm.device.type, built)
    IN IF ~ IsBackend(backend)
       THEN LogError(backend, h, nullopt, nullopt)
       ELSE Result("ok", "", h, nullopt, nullopt,
                   <<Invocation("CreateNormalMap", backend,
                                [vertex_map |-> vm, normal_map |-> nm])>>,
                   {"normal_map"})

(***************************************************************************)
(* The caller's inputs.                                                    *)
(***************************************************************************)
\* Layouts of an (n, 3) view: dense; columns 1..3 of an (n, 4) buffer;
\* every second row of a (2n, 3) buffer.
Layouts == {"dense", "columns", "rows"}
BufferLen(layout, n) ==
    IF layout = "dense" THEN 3 * n ELSE IF layout = "columns" THEN 4 * n ELSE 6 * n
View(blob, layout, n, dtype, device) ==
    IF layout = "dense" THEN Tensor(blob, 0, <<n, 3>>, <<3, 1>>, dtype, device)
    ELSE IF layout = "columns" THEN Tensor(blob, 1, <<n, 3>>, <<4, 1>>, dtype, device)
    ELSE Tensor(blob, 0, <<n, 3>>, <<6, 1>>, dtype, device)
Storage(len, seed) == [k \in 1..len |-> seed + k]

\* 4x4 matrices, row-major.
Identity == <<1, 0, 0, 0,   0, 1, 0, 0,   0, 0, 1, 0,   0, 0, 0, 1>>
Translation == <<1, 0, 0, 1,   0, 1, 0, 2,   0, 0, 1, 3,   0, 0, 0, 1>>
RotationZ == <<0, -1, 0, 2,   1, 0, 0, 0,   0, 0, 1, -1,   0, 0, 0, 1>>
Mirror == <<-2, 0, 0, 0,   0, 1, 0, 0,   0, 0, 1, 0,   0, 0, 0, 1>>
Scaling == <<1, 0, 0, 0,   0, 2, 0, 0,   0, 0, 1, 0,   0, 0, 0, 1>>
Perspective == <<1, 0, 0, 0,   0, 1, 0, 0,   0, 0, 1, 0,   0, 1, 0, 1>>
Corner == <<1, 0, 0, 0,   0, 1, 0, 0,   0, 0, 1, 0,   0, 0, 0, 2>>
Matrices == {Identity, Translation, RotationZ, Mirror, Scaling, Perspective, Corner}

\* Layouts of a 4x4 view: dense; the transpose of a dense buffer (.T());
\* the first four columns of a 4x5 buffer whose last column is 0.
MatrixLayouts == {"dense", "transposed", "sliced"}
MatrixStorage(M, layout) ==
    IF layout = "dense" THEN M
    ELSE IF layout = "transposed"
    THEN [k \in 1..16 |-> M[4 * ((k - 1) % 4) + ((k - 1) \div 4) + 1]]
    ELSE [k \in 1..20 |-> IF (k - 1) % 5 = 4 THEN 0
                          ELSE M[4 * ((k - 1) \div 5) + ((k - 1) % 5) + 1]]
MatrixView(blob, layout, dtype, device) ==
    IF layout = "dense" THEN Tensor(blob, 0, <<4, 4>>, <<4, 1>>, dtype, device)
    ELSE IF layout = "transposed" THEN Tensor(blob, 0, <<4, 4>>, <<1, 4>>, dtype, device)
    ELSE Tensor(blob, 0, <<4, 4>>, <<5, 1>>, dtype, device)

\* A dense 3x3 matrix (the intrinsics; also a transformation of the wrong shape).
Matrix3 == <<1, 0, 0,   0, 1, 0,   0, 0, 1>>
Matrix3View(blob, dtype, device) ==
    Tensor(blob, 0, <<3, 3>>, <<3, 1>>, dtype, device)

\* A tensor of which only dtype and device matter to the dispatch layer.
Plain(blob, shape, dtype, device) ==
    Tensor(blob, 0, shape, DefaultStrides(shape), dtype, device)

EmptyHeap == [b \in Blobs |-> <<>>]

Start(o) ==
    /\ op = o
    /\ pc = "ready"
    /\ outcome = "none"
    /\ error = ""
    /\ kernel = <<>>
    /\ written = {}
    /\ pre = [heap |-> heap, points |-> points, normals |-> normals,
              transformation |-> transformation]

NoImages ==
    /\ depth = nullopt /\ image_colors = nullopt /\ colors = nullopt
    /\ intrinsics = nullopt /\ extrinsics = nullopt
    /\ vertex_map = nullopt /\ normal_map = nullopt

\* The caller's points and transformation of a Transform call.
TransformInputs(withNormals) ==
    \E pl \in Layouts, seed \in 0..MaxSeed, dt \in Dtypes, dev \in PrimaryDevices,
       M \in Matrices \cup {Matrix3}, ml \in MatrixLayouts,
       tdt \in Dtypes, sameDev \in BOOLEAN,
       nl \in {"dense", "rows"}, ndt \in Dtypes, nSameDev \in BOOLEAN :
        /\ M = Matrix3 => ml = "dense"
        /\ ~ withNormals => (nl = "dense" /\ ndt = dt /\ nSameDev)
        /\ points = View("P", pl, NumPoints, dt, dev)
        /\ transformation =
             IF M = Matrix3 THEN Matrix3View("T", tdt, IF sameDev THEN dev ELSE Mismatching(dev))
             ELSE MatrixView("T", ml, tdt, IF sameDev THEN dev ELSE Mismatching(dev))
        /\ normals =
             IF withNormals
             THEN View("N", nl, NumPoints, ndt, IF nSameDev THEN dev ELSE Mismatching(dev))
             ELSE nullopt
        /\ heap = [EmptyHeap EXCEPT
                     !["P"] = Storage(BufferLen(pl, NumPoints), seed),
                     !["N"] = IF withNormals
                              THEN Storage(BufferLen(nl, NumPoints), seed + 1)
                              ELSE <<>>,
                     !["T"] = IF M = Matrix3 THEN M ELSE MatrixStorage(M, ml)]

InitTransform ==
    /\ cuda_built \in BOOLEAN
    /\ TransformInputs(FALSE)
    /\ NoImages
    /\ Start("Transform")

InitTransformWithNormals ==
    /\ cuda_built \in BOOLEAN
    /\ TransformInputs(TRUE)
    /\ NoImages
    /\ Start("TransformWithNormals")

\* The caller's arguments of an Unproject or Project call.
ImageInputs ==
    \E dev \in PrimaryDevices, pSame \in BOOLEAN, cSame \in BOOLEAN,
       hasImageColors \in BOOLEAN, hasColors \in BOOLEAN,
       kdt \in Dtypes, kdev \in {host, CUDA0}, kl \in {"dense", "transposed"},
       edt \in Dtypes, edev \in {host, CUDA0}, el \in MatrixLayouts :
        /\ (~ hasColors) => cSame
        /\ depth = Plain("D", <<2, 2>>, Float32, dev)
        /\ image_colors = IF hasImageColors
                          THEN Plain("D", <<2, 2, 3>>, Float32, dev) ELSE nullopt
        /\ points = Plain("P", <<NumPoints, 3>>, Float32,
                          IF pSame THEN dev ELSE Mismatching(dev))
        /\ colors = IF hasColors
                    THEN Plain("P", <<NumPoints, 3>>, Float32,
                               IF cSame THEN dev ELSE Mismatching(dev))
                    ELSE nullopt
        /\ intrinsics = IF kl = "dense" THEN Matrix3View("K", kdt, kdev)
                        ELSE Tensor("K", 0, <<3, 3>>, <<1, 3>>, kdt, kdev)
        /\ extrinsics = MatrixView("E", el, edt, edev)
        /\ heap = [EmptyHeap EXCEPT
                     !["P"] = Storage(3 * NumPoints, 0),
                     !["D"] = Storage(12, 0),
                     !["K"] = Matrix3,
                     !["E"] = MatrixStorage(Translation, el)]
        /\ normals = nullopt
        /\ transformation = nullopt
        /\ vertex_map = nullopt
        /\ normal_map = nullopt

InitUnproject ==
    /\ cuda_built \in BOOLEAN
    /\ ImageInputs
    /\ Start("Unproject")

InitProject ==
    /\ cuda_built \in BOOLEAN
    /\ ImageInputs
    /\ Start("Project")

NoPoints ==
    /\ points = nullopt /\ normals = nullopt /\ transformation = nullopt
    /\ image_colors = nullopt /\ colors = nullopt /\ extrinsics = nullopt
    /\ heap = [EmptyHeap EXCEPT !["D"] = Storage(12, 0), !["K"] = Matrix3]

InitCreateVertexMap ==
    /\ cuda_built \in BOOLEAN
    /\ \E dev \in PrimaryDevices, kSame \in BOOLEAN, vSame \in BOOLEAN :
        /\ depth = Plain("D", <<2, 2>>, Float32, dev)
        /\ intrinsics = Matrix3View("K", Float64, IF kSame THEN dev ELSE Mismatching(dev))
        /\ vertex_map = Plain("D", <<2, 2, 3>>, Float32,
                              IF vSame THEN dev ELSE Mismatching(dev))
        /\ normal_map = nullopt
    /\ NoPoints
    /\ Start("CreateVertexMap")

InitCreateNormalMap ==
    /\ cuda_built \in BOOLEAN
    /\ \E dev \in PrimaryDevices, nSame \in BOOLEAN :
        /\ vertex_map = Plain("D", <<2, 2, 3>>, Float32, dev)
        /\ normal_map = Plain("D", <<2, 2, 3>>, Float32,
                              IF nSame THEN dev ELSE Mismatching(dev))
        /\ depth = nullopt
        /\ intrinsics = nullopt
    /\ NoPoints
    /\ Start("CreateNormalMap")

Init ==
    \/ InitTransform
    \/ InitTransformWithNormals
    \/ InitUnproject
    \/ InitProject
    \/ InitCreateVertexMap
    \/ InitCreateNormalMap

(***************************************************************************)
(* The calls.                                                              *)
(***************************************************************************)
Return(r) ==
    /\ pc' = "done"
    /\ outcome' = r.outcome
    /\ error' = r.error
    /\ heap' = r.heap
    /\ points' = r.points
    /\ normals' = r.normals
    /\ kernel' = r.kernel
    /\ written' = r.written
    /\ UNCHANGED <<cuda_built, transformation, depth, image_colors, colors,
                   intrinsics, extrinsics, vertex_map, normal_map, op, pre>>

CallTransform ==
    /\ pc = "ready" /\ op = "Transform"
    /\ Return(TransformCall(heap, points, transformation, cuda_built))

CallTransformWithNormals ==
    /\ pc = "ready" /\ op = "TransformWithNormals"
    /\ Return(TransformWithNormalsCall(heap, points, normals, transformation,
                                       cuda_built))

CallUnproject ==
    /\ pc = "ready" /\ op = "Unproject"
    /\ Return(Unproject(heap, depth, image_colors, points, colors, intrinsics,
                        extrinsics, cuda_built))

CallProject ==
    /\ pc = "ready" /\ op = "Project"
    /\ Return(Project(heap, depth, image_colors, points, colors, intrinsics,
                      extrinsics, cuda_built))

CallCreateVertexMap ==
    /\ pc = "ready" /\ op = "CreateVertexMap"
    /\ Return(CreateVertexMap(heap, depth, intrinsics, vertex_map, cuda_built))

CallCreateNormalMap ==
    /\ pc = "ready" /\ op = "CreateNormalMap"
    /\ Return(CreateNormalMap(heap, vertex_map, normal_map, cuda_built))

Next ==
    \/ CallTransform
    \/ CallTransformWithNormals
    \/ CallUnproject
    \/ CallProject
    \/ CallCreateVertexMap
    \/ CallCreateNormalMap

Spec == Init /\ [][Next]_vars

(***************************************************************************)
(* The rigid-transform check on its own: Transform(points, T) on dense     *)
(* host points, T a dense matrix with up to two entries changed.           *)
(***************************************************************************)
MaxEntry == 2       \* changed entries are drawn from -MaxEntry..MaxEntry

InitValid ==
    /\ cuda_built = TRUE
    /\ \E base \in {Identity, RotationZ}, i \in 1..16, j \in 1..16,
          v \in (-MaxEntry)..MaxEntry, w \in (-MaxEntry)..MaxEntry, dt \in Dtypes :
        /\ points = View("P", "dense", NumPoints, dt, host)
        /\ transformation = MatrixView("T", "dense", dt, host)
        /\ heap = [EmptyHeap EXCEPT
                     !["P"] = Storage(3 * NumPoints, 0),
                     !["T"] = [[base EXCEPT ![i] = v] EXCEPT ![j] = w]]
    /\ normals = nullopt
    /\ NoImages
    /\ Start("Transform")

SpecValid == InitValid /\ [][CallTransform]_vars

(***************************************************************************)
(* Properties.                                                             *)
(***************************************************************************)
Done == pc = "done"
IsTransform == op \in {"Transform", "TransformWithNormals"}
IsImageOp == op \in {"Unproject", "Project"}

\* The rows the caller reads through a tensor variable, row-major.
Read(h, t) == ToFlat(h, t)

\* R p + t (withT) or R n (~withT) of every row of pts, for the 4x4 matrix M
\* given row-major.
RigidImage(pts, M, withT) ==
    [k \in 1..Len(pts) |->
        LET r == (k - 1) \div 3
            c == (k - 1) % 3
        IN M[4 * c + 1] * pts[3 * r + 1] + M[4 * c + 2] * pts[3 * r + 2]
           + M[4 * c + 3] * pts[3 * r + 3] + (IF withT THEN M[4 * c + 4] ELSE 0)]

\* C1: after a Transform call that returns, the caller's points hold R p + t
\* of each original row p, and the caller's normals hold R n of each original
\* row n, whatever the layout of the buffers passed in.
C1_ObservablyInPlace ==
    (Done /\ IsTransform /\ outcome = "ok") =>
        /\ Read(heap, points) =
             RigidImage(Read(pre.heap, pre.points),
                        Read(pre.heap, pre.transformation), TRUE)
        /\ op = "TransformWithNormals" =>
             Read(heap, normals) =
               RigidImage(Read(pre.heap, pre.normals),
                          Read(pre.heap, pre.transformation), FALSE)

RotationIdx == {0, 1, 2, 4, 5, 6, 8, 9, 10}
BottomIdx == {12, 13, 14}

\* C2: the check rejects the 16 row-major entries m[0..15] it is given if and
\* only if a rotation-block entry is greater than 1 or one of m[12], m[13],
\* m[14] is not 0; m[3], m[7], m[11] and m[15] play no part and rotation
\* entries have no lower bound.
C2_RigidCheck ==
    (Done /\ op = "Transform" /\ TransformAsserts(pre.points, pre.transformation) = "") =>
        LET m == Read(pre.heap, pre.transformation)
        IN (error = InvalidTransformation /\ outcome = "error")
           <=> \/ \E i \in RotationIdx : m[i + 1] > 1
               \/ \E i \in BottomIdx : m[i + 1] # 0

\* A matrix with a translation entry above 1, a rotation entry below -1 is accepted.
C2_Witness ==
    /\ Done /\ op = "Transform" /\ outcome = "ok"
    /\ Read(pre.heap, pre.transformation)[4] > 1
    /\ Read(pre.heap, pre.transformation)[1] < -1

\* A precondition of the Transform call made does not hold.
TransformPreconditionFails ==
    \/ pre.transformation.shape # <<4, 4>>
    \/ pre.transformation.dtype # pre.points.dtype
    \/ pre.transformation.device # pre.points.device
    \/ op = "TransformWithNormals" /\ pre.normals.dtype # pre.points.dtype
    \/ op = "TransformWithNormals" /\ pre.normals.device # pre.points.device
    \/ ~ IsValidRigidTransformation(TransformationPtr(pre.heap, pre.transformation))

\* C3: a Transform call with a failing precondition (shape, dtype, device,
\* rigid check) ends in an error, no backend kernel has run and the caller's
\* points, normals and buffers are what they were.
C3_PreconditionFailure ==
    (Done /\ IsTransform /\ TransformPreconditionFails) =>
        /\ outcome = "error"
        /\ kernel = <<>>
        /\ written = {}
        /\ points = pre.points
        /\ normals = pre.normals
        /\ heap = pre.heap

C3_Witness ==
    /\ Done /\ op = "TransformWithNormals" /\ outcome = "error"
    /\ pre.transformation.dtype = pre.points.dtype
    /\ pre.normals.dtype # pre.points.dtype
    /\ ~ IsContiguous(pre.points)

\* C4: an Unproject or Project call with exactly one of image_colors and
\* colors present ends in the pairing error with no kernel run and nothing
\* written; with both or none present the pairing error is not raised.
C4_Pairing ==
    (Done /\ IsImageOp) =>
        IF has_value(image_colors) # has_value(colors)
        THEN /\ outcome = "error" /\ error = BothOrNone
             /\ kernel = <<>> /\ written = {} /\ heap = pre.heap
        ELSE error # BothOrNone

C4_Witness ==
    /\ Done /\ op = "Project" /\ error = BothOrNone
    /\ has_value(colors) /\ ~ has_value(image_colors)

\* C5: the intrinsics and extrinsics a backend kernel of Unproject or Project
\* receives are on the host and Float64.
C5_HostFloat64 ==
    (Done /\ IsImageOp /\ kernel # <<>>) =>
        /\ kernel[1].args.intrinsics.device = host
        /\ kernel[1].args.intrinsics.dtype = Float64
        /\ kernel[1].args.extrinsics.device = host
        /\ kernel[1].args.extrinsics.dtype = Float64

\* The tensor whose device selects the backend.
PrimaryInput ==
    IF IsTransform THEN pre.points
    ELSE IF op = "CreateNormalMap" THEN vertex_map
    ELSE depth

PreconditionErrors ==
    {"AssertShape", "AssertDtype", "AssertDtype normals", "AssertDevice",
     "AssertDevice normals", InvalidTransformation, BothOrNone, InconsistentDevice}

\* C6: a call that passes its preconditions runs exactly one backend, that of
\* the primary input's device type (the GPU one only in a build with GPU
\* support); on a CUDA device without GPU support, or on another device type,
\* the call is an error and no backend, the CPU one included, has run.
C6_Dispatch ==
    Done =>
        LET type == PrimaryInput.device.type
            supported == type = "CPU" \/ (type = "CUDA" /\ cuda_built)
        IN /\ Len(kernel) <= 1
           /\ kernel # <<>> => (kernel[1].backend = type /\ supported)
           /\ ~ supported => (outcome = "error" /\ kernel = <<>>)
           /\ (supported /\ error \notin PreconditionErrors) =>
                 (outcome = "ok" /\ Len(kernel) = 1)

C6_Witness ==
    /\ Done /\ op = "CreateVertexMap" /\ depth.device.type = "CUDA"
    /\ depth.device = intrinsics.device
    /\ ~ cuda_built /\ outcome = "error" /\ kernel = <<>>

\* C7: Transform with the identity matrix leaves the caller's points and
\* normals equal, in shape and element for element, to what they were.
C7_IdentityTransform ==
    (Done /\ IsTransform /\ pre.transformation.shape = <<4, 4>>
          /\ Read(pre.heap, pre.transformation) = Identity) =>
        /\ points.shape = pre.points.shape
        /\ Read(heap, points) = Read(pre.heap, pre.points)
        /\ op = "TransformWithNormals" =>
             /\ normals.shape = pre.normals.shape
             /\ Read(heap, normals) = Read(pre.heap, pre.normals)

\* The participating buffers of the call made that must share a device.
Participants ==
    IF IsTransform
    THEN {pre.points, pre.transformation}
         \cup (IF op = "TransformWithNormals" THEN {pre.normals} ELSE {})
    ELSE IF IsImageOp
    THEN {depth, points} \cup (IF has_value(colors) THEN {colors} ELSE {})
    ELSE IF op = "CreateVertexMap" THEN {depth, intrinsics, vertex_map}
    ELSE {vertex_map, normal_map}

\* C8: a call in which two participating buffers are on different devices
\* ends in an error and no backend kernel has run.
C8_OneDevice ==
    (Done /\ \E a \in Participants, b \in Participants : a.device # b.device) =>
        /\ outcome = "error"
        /\ kernel = <<>>

\* C9: every buffer a backend kernel of Transform receives is contiguous.
C9_KernelGetsContiguous ==
    (Done /\ IsTransform /\ kernel # <<>>) =>
        /\ IsContiguous(kernel[1].args.points)
        /\ IsContiguous(kernel[1].args.transformation)
        /\ op = "TransformWithNormals" => IsContiguous(kernel[1].args.normals)

\* C10: after a Transform call that returns, the caller's points (and
\* normals) are contiguous with the shape, dtype and device passed in, and
\* the transformation and its buffer are unchanged.
C10_Frame ==
    (Done /\ IsTransform /\ outcome = "ok") =>
        /\ IsContiguous(points)
        /\ points.shape = pre.points.shape
        /\ points.dtype = pre.points.dtype
        /\ points.device = pre.points.device
        /\ op = "TransformWithNormals" =>
             /\ IsContiguous(normals)
             /\ normals.shape = pre.normals.shape
             /\ normals.dtype = pre.normals.dtype
             /\ normals.device = pre.normals.device
        /\ transformation = pre.transformation
        /\ heap[transformation.blob] = pre.heap[pre.transformation.blob]

C10_Witness ==
    /\ Done /\ op = "TransformWithNormals" /\ outcome = "ok"
    /\ ~ IsContiguous(pre.points)
    /\ ~ IsContiguous(pre.normals)
    /\ ~ IsContiguous(pre.transformation)

====
